---- MODULE Spec2Model ----
(***************************************************************************)
(* Model of src/src/azur751/command.py: the serial client of a Cambridge   *)
(* Audio Azur 751BD player.  Byte strings are sequences of one-character   *)
(* strings; Python values passed as arguments are records [t, n, s] with   *)
(* t the Python type, n the integer value and s the string value.          *)
(* Read timeouts are kept in hundredths of a second (0.2 s = 20,           *)
(* 0.07 s = 7, 10 s = 1000); sleeps are kept in seconds.                   *)
(* Strings behave as the str of Python 2, which the module is written for: *)
(* what read() returns is sliced, searched and stripped as text.           *)
(* A call is one step: the caller is idle, calls a method, has its result  *)
(* or its exception, and goes on; only the connection's timeout outlives   *)
(* a call.                                                                 *)
(***************************************************************************)
EXTENDS Integers, Sequences, FiniteSets, TLC

VARIABLES
    timeout,  \* self.__conn.timeout, the read timeout of the connection
    pc,       \* the caller: "idle" between calls, "returned" when a call has ended
    op,       \* the method the caller invoked last
    arg,      \* its arguments, <<command, parameters>> for _cmd
    exc,      \* the exception class the call raised, "None" when it returned
    msg,      \* the exception's message format
    detail,   \* the bytes formatted into the exception's message
    value,    \* the value the call returned
    buffer,   \* the local variable response when the call ended
    entry,    \* the connection's timeout when the call was made
    log       \* the transport and sleep calls the method made, in order

vars == <<timeout, pc, op, arg, exc, msg, detail, value, buffer, entry, log>>

-----------------------------------------------------------------------------
(* Bounds of the model *)

\* longest run of stray bytes the line delivers before a frame
MaxNoise == 1
\* longest payload of a response frame the device sends
MaxPayload == 2
\* the integer arguments callers pass lie in -MaxArg..MaxArg
MaxArg == 6

-----------------------------------------------------------------------------
(* Program constants *)

\* serial.Serial(..., timeout=0.2), in hundredths of a second
InitTimeout == 20
\* command_interval = 0.07, in hundredths of a second
command_interval == 7
\* self.__conn.timeout = 10, in hundredths of a second
ExtendedTimeout == 1000
\* self.__conn.read(25)
ReadSize == 25
\* power_on: self.sleep(25)
PowerOnSleep == 25
\* power_off: self.sleep(10)
PowerOffSleep == 10

AT == "@"
CR == "\r"
SP == " "

-----------------------------------------------------------------------------
(* Python values *)

PyNone == [t |-> "None", n |-> 0, s |-> <<>>]
PyInt(i) == [t |-> "int", n |-> i, s |-> <<>>]
PyStr(str) == [t |-> "str", n |-> 0, s |-> str]

\* truth value of a Python object, as tested by "if parameters:"
Truthy(v) ==
    CASE v.t = "None" -> FALSE
      [] v.t = "int" -> v.n # 0
      [] OTHER -> v.s # <<>>

Digit(d) == <<"0", "1", "2", "3", "4", "5", "6", "7", "8", "9">>[d + 1]

RECURSIVE NatStr(_)
NatStr(i) == IF i < 10 THEN <<Digit(i)>> ELSE NatStr(i \div 10) \o <<Digit(i % 10)>>

\* str(v), the text "%s" formats v as
PyToStr(v) ==
    CASE v.t = "None" -> <<"N", "o", "n", "e">>
      [] v.t = "int" -> IF v.n < 0 THEN <<"-">> \o NatStr(0 - v.n) ELSE NatStr(v.n)
      [] OTHER -> v.s

\* x == y for the Python values of the model (an int never equals a str)
PyEq(x, y) == x.t = y.t /\ x.n = y.n /\ x.s = y.s

\* the exception classes as they would be had CommandError been derived
\* from Exception
Base_Unrelated(cls) ==
    CASE cls \in {"ValueError", "TypeError", "EnvironmentError"} -> "StandardError"
      [] cls = "SerialException" -> "IOError"
      [] cls = "IOError" -> "EnvironmentError"
      [] OTHER -> "Exception"

\* the base class of an exception class: class CommandError(ValueError),
\* and the built-in classes of Python 2 and of pyserial
Base(cls) ==
    CASE cls = "CommandError" -> "ValueError"
      [] cls \in {"ValueError", "TypeError", "EnvironmentError"} -> "StandardError"
      [] cls = "SerialException" -> "IOError"
      [] cls = "IOError" -> "EnvironmentError"
      [] OTHER -> "Exception"

RECURSIVE IsSubclass(_, _)
\* issubclass(cls, handler): "except handler:" catches an instance of cls
IsSubclass(cls, handler) ==
    \/ cls = handler
    \/ cls # "Exception" /\ IsSubclass(Base(cls), handler)

-----------------------------------------------------------------------------
(* Python string primitives *)

Lower == <<"a", "b", "c", "d", "e", "f", "g", "h", "i", "j", "k", "l", "m",
           "n", "o", "p", "q", "r", "s", "t", "u", "v", "w", "x", "y", "z">>
Upper == <<"A", "B", "C", "D", "E", "F", "G", "H", "I", "J", "K", "L", "M",
           "N", "O", "P", "Q", "R", "S", "T", "U", "V", "W", "X", "Y", "Z">>

UpperChar(c) ==
    IF \E i \in 1..Len(Lower) : Lower[i] = c
    THEN Upper[CHOOSE i \in 1..Len(Lower) : Lower[i] = c]
    ELSE c

\* str.upper()
upper(str) == [i \in 1..Len(str) |-> UpperChar(str[i])]

\* str.find(c): 0-based offset of the first c, or -1
find(str, c) ==
    IF \E i \in 1..Len(str) : str[i] = c
    THEN (CHOOSE i \in 1..Len(str) : str[i] = c /\ \A j \in 1..(i - 1) : str[j] # c) - 1
    ELSE 0 - 1

\* a slice bound clamped into 0..Len, negative bounds counted from the end
SliceIndex(k, len) ==
    IF k < 0 THEN (IF k + len < 0 THEN 0 ELSE k + len)
    ELSE (IF k > len THEN len ELSE k)

\* str[i:j]
slice(str, i, j) == SubSeq(str, SliceIndex(i, Len(str)) + 1, SliceIndex(j, Len(str)))

\* str[i:]
sliceFrom(str, i) == SubSeq(str, SliceIndex(i, Len(str)) + 1, Len(str))

\* the characters str.strip() removes
Whitespace == {SP, CR, "\t", "\n", "\f"}

RECURSIVE lstrip(_)
lstrip(str) ==
    IF str # <<>> /\ Head(str) \in Whitespace THEN lstrip(Tail(str)) ELSE str

RECURSIVE rstrip(_)
rstrip(str) ==
    IF str # <<>> /\ str[Len(str)] \in Whitespace
    THEN rstrip(SubSeq(str, 1, Len(str) - 1))
    ELSE str

\* str.strip()
strip(str) == rstrip(lstrip(str))

-----------------------------------------------------------------------------
(* The transport: what serial.Serial does for the client *)

\* the outcome of a read that raises instead of returning bytes
RAISE == <<"SerialException">>

WriteEv(data) == [ev |-> "write", data |-> data, n |-> 0, tmo |-> 0]
FlushEv == [ev |-> "flush", data |-> <<>>, n |-> 0, tmo |-> 0]
\* read(n) issued while the timeout is tmo; data is what it returned
ReadEv(data, tmo) == [ev |-> "read", data |-> data, n |-> ReadSize, tmo |-> tmo]
TimeoutEv(tmo) == [ev |-> "timeout", data |-> <<>>, n |-> 0, tmo |-> tmo]
SleepEv(secs) == [ev |-> "sleep", data |-> <<>>, n |-> secs, tmo |-> 0]

-----------------------------------------------------------------------------
(* Azur751BD._cmd *)

\* the outcome of a call: what it raised or returned, the timeout it leaves
\* on the connection, the last value of response, and the calls it made
Outcome(e, m, d, v, t, b, l) ==
    [exc |-> e, msg |-> m, detail |-> d, value |-> v, timeout |-> t,
     buffer |-> b, log |-> l]

\* the length check as it would be if it tested len(command) < 3
BadCommand_ShortOnly(command) == Len(command) < 3

\* len(command) != 3
BadCommand(command) == Len(command) # 3

\* cmd = "#%s" % (command.upper(),); if parameters: cmd = "%s %s" % (cmd, parameters)
\* and the "%s\r" % cmd that is written
Request(command, parameters) ==
    LET cmd == <<"#">> \o upper(command)
    IN (IF Truthy(parameters) THEN cmd \o <<SP>> \o PyToStr(parameters) ELSE cmd)
       \o <<CR>>

\* the buffer as it would be if the bytes before '@' were kept
Trimmed_Kept(response) == response

\* if response.find('@') > 0: response = response[response.find('@'):]
Trimmed(response) ==
    IF find(response, AT) > 0 THEN sliceFrom(response, find(response, AT)) ELSE response

\* the second read is made inside the branch that sliced, when no '\r' is left
NeedsTail(response) ==
    find(response, AT) > 0 /\ find(Trimmed(response), CR) = 0 - 1

\* valid = response[0] == '@' and response[-1:] == '\r', False on IndexError
Valid(response) ==
    IF response = <<>> THEN FALSE
    ELSE response[1] = AT /\ sliceFrom(response, 0 - 1) = <<CR>>

\* the timeout assigned after the fallback read
RestoredTimeout == command_interval

\* response[1:2].upper() == 'ER'
IsError(response) == upper(slice(response, 1, 2)) = <<"E", "R">>

\* response[3:-1], formatted into the CommandError
ErrorDetail(response) == slice(response, 3, 0 - 1)

\* the returned value as it would be without the call of strip()
Payload_Unstripped(response) == slice(response, 3, 0 - 1)

\* response[3:-1].strip()
Payload(response) == strip(slice(response, 3, 0 - 1))

\* a read that raised ends the call with the transport's exception
ReadFailed(t, b, l) == Outcome("SerialException", "", <<>>, PyNone, t, b, l)

\* from "if not response:" to the return
Decide(response, t, io) ==
    IF response = <<>>
    THEN Outcome("CommandError", "No response received", <<>>, PyNone, t, response, io)
    ELSE IF IsError(response)
    THEN Outcome("CommandError", "Error: %s", ErrorDetail(response), PyNone, t, response, io)
    ELSE Outcome("None", "", <<>>, PyStr(Payload(response)), t, response, io)

\* from "if not valid:" to the return, given the buffer the first reads built
Fallback(response, t0, r3, io) ==
    IF Valid(response) THEN Decide(response, t0, io)
    ELSE LET io3 == io \o <<TimeoutEv(ExtendedTimeout), ReadEv(r3, ExtendedTimeout)>>
         IN IF r3 = RAISE THEN ReadFailed(ExtendedTimeout, response, io3)
            ELSE Decide(r3, RestoredTimeout, io3 \o <<TimeoutEv(RestoredTimeout)>>)

\* _cmd(command, parameters) called while the timeout is t0; r1, r2 and r3
\* are what the primary, the tail and the fallback read deliver if issued
Cmd(command, parameters, t0, r1, r2, r3) ==
    IF BadCommand(command)
    THEN Outcome("ValueError", "command must be exactly 3 bytes", <<>>, PyNone, t0, <<>>, <<>>)
    ELSE LET io1 == <<WriteEv(Request(command, parameters)), FlushEv, ReadEv(r1, t0)>>
             io2 == io1 \o <<ReadEv(r2, t0)>>
         IN IF r1 = RAISE THEN ReadFailed(t0, <<>>, io1)
            ELSE IF ~NeedsTail(r1) THEN Fallback(Trimmed(r1), t0, r3, io1)
            ELSE IF r2 = RAISE THEN ReadFailed(t0, Trimmed(r1), io2)
            ELSE Fallback(Trimmed(r1) \o r2, t0, r3, io2)

-----------------------------------------------------------------------------
(* The device and the line *)

RECURSIVE SeqsUpTo(_, _)
\* the sequences over chars of length at most n
SeqsUpTo(chars, n) ==
    IF n = 0 THEN {<<>>}
    ELSE LET shorter == SeqsUpTo(chars, n - 1)
         IN shorter \cup {<<c>> \o q : c \in chars, q \in shorter}

\* stray bytes the line delivers ahead of a frame
Noises == SeqsUpTo({"~"}, MaxNoise)
\* the result codes of the device's replies
ResultCodes == {<<"O", "K">>, <<"E", "R">>, <<"e", "R">>}
Payloads == SeqsUpTo({SP, "K"}, MaxPayload)
\* a response frame: '@', the result code, the payload, the terminator
Frame(code, payload) == <<AT>> \o code \o payload \o <<CR>>
Frames == {Frame(code, payload) : code \in ResultCodes, payload \in Payloads}
\* what arrives on the line after a request
Streams == {noise \o frame : noise \in Noises, frame \in Frames}

\* the bytes of stream from offset i up to offset j
Piece(stream, i, j) == SubSeq(stream, i + 1, j)

\* what three consecutive reads get of a stream: the bytes before offset o
\* and after offset c never reach the call, a read that times out gets <<>>
Deliveries(stream) ==
    LET n == Len(stream)
    IN UNION {UNION {UNION {
           {<<Piece(stream, o, a), Piece(stream, a, b), Piece(stream, b, c)>> : c \in b..n} :
           b \in a..n} : a \in o..n} : o \in 0..n}

\* any of the reads may raise instead
WithFailures(d) ==
    {d, <<RAISE, d[2], d[3]>>, <<d[1], RAISE, d[3]>>, <<d[1], d[2], RAISE>>}

\* a read the call does not issue gets nothing
Consumed(d) ==
    LET tail == d[1] # RAISE /\ NeedsTail(d[1])
        r2 == IF tail THEN d[2] ELSE <<>>
        fb == d[1] # RAISE /\ r2 # RAISE /\ ~Valid(Trimmed(d[1]) \o r2)
    IN <<d[1], r2, IF fb THEN d[3] ELSE <<>> >>

Scripts ==
    {Consumed(f) : f \in UNION {WithFailures(d) : d \in UNION {Deliveries(s) : s \in Streams}}}

-----------------------------------------------------------------------------
(* The named operations *)

\* the methods that only return self._cmd(code); "previous" is defined
\* twice in the class and the name is bound to the later definition
Codes ==
    [
    power_toggle |-> <<"p", "o", "w">>,
    source |-> <<"s", "r", "c">>,
    eject_toggle |-> <<"e", "j", "t">>,
    system_cycle |-> <<"s", "y", "s">>,
    dim_cycle |-> <<"d", "i", "m">>,
    pureaudio_toggle |-> <<"p", "u", "r">>,
    num1 |-> <<"n", "u", "1">>,
    num2 |-> <<"n", "u", "2">>,
    num3 |-> <<"n", "u", "3">>,
    num4 |-> <<"n", "u", "4">>,
    num5 |-> <<"n", "u", "5">>,
    num6 |-> <<"n", "u", "6">>,
    num7 |-> <<"n", "u", "7">>,
    num8 |-> <<"n", "u", "8">>,
    num9 |-> <<"n", "u", "9">>,
    num0 |-> <<"n", "u", "0">>,
    clr |-> <<"c", "l", "r">>,
    goto |-> <<"g", "o", "t">>,
    home |-> <<"h", "o", "m">>,
    page_up |-> <<"p", "u", "p">>,
    page_down |-> <<"p", "d", "n">>,
    osd_toggle |-> <<"o", "s", "d">>,
    top_menu |-> <<"t", "t", "l">>,
    menu |-> <<"m", "n", "u">>,
    up |-> <<"n", "u", "p">>,
    left |-> <<"n", "l", "t">>,
    right |-> <<"n", "r", "t">>,
    down |-> <<"n", "d", "n">>,
    enter |-> <<"s", "e", "l">>,
    setup |-> <<"s", "e", "t">>,
    previous |-> <<"p", "r", "e">>,
    red |-> <<"r", "e", "d">>,
    green |-> <<"g", "r", "n">>,
    blue |-> <<"b", "l", "u">>,
    yellow |-> <<"y", "l", "w">>,
    stop |-> <<"s", "t", "p">>,
    play |-> <<"p", "l", "a">>,
    pause |-> <<"p", "a", "u">>,
    next |-> <<"n", "x", "t">>,
    fast_reverse |-> <<"r", "e", "v">>,
    fast_forward |-> <<"f", "w", "d">>,
    audio_language_cycle |-> <<"a", "u", "d">>,
    subtitle_language_cycle |-> <<"s", "u", "b">>,
    angle_cycle |-> <<"a", "n", "g">>,
    zoom_cycle |-> <<"z", "o", "m">>,
    toggle_sap |-> <<"s", "a", "p">>,
    ab_repeat_cycle |-> <<"a", "t", "b">>,
    repeat_cycle |-> <<"r", "p", "t">>,
    pip_toggle |-> <<"p", "i", "p">>,
    resolution_cycle |-> <<"h", "d", "m">>,
    subtitle_shift |-> <<"s", "u", "h">>,
    query_verbose_mode |-> <<"q", "v", "m">>,
    query_power_status |-> <<"q", "p", "w">>,
    query_firmware_version |-> <<"q", "v", "r">>,
    query_hdmi_resolution |-> <<"q", "h", "d">>,
    query_playback_status |-> <<"q", "p", "l">>,
    query_track_title |-> <<"q", "t", "k">>,
    query_chapter |-> <<"q", "c", "h">>,
    query_track_elapsed |-> <<"q", "t", "e">>,
    query_track_remaining |-> <<"q", "t", "r">>,
    query_chapter_elapsed |-> <<"q", "c", "e">>,
    query_chapter_remaining |-> <<"q", "c", "r">>,
    query_total_elapsed |-> <<"q", "e", "l">>,
    query_total_remaining |-> <<"q", "r", "e">>,
    query_disc_type |-> <<"q", "d", "t">>,
    query_audio_type |-> <<"q", "a", "t">>,
    query_subtitle_type |-> <<"q", "s", "t">>,
    query_subtitle_shift |-> <<"q", "s", "h">>,
    query_osd_position |-> <<"q", "o", "p">>,
    query_repeat_mode |-> <<"q", "r", "p">>,
    query_zoom_mode |-> <<"q", "z", "m">>,
    query_region_code |-> <<"q", "r", "g">>,
    query_model_number |-> <<"q", "m", "d">>,
    direct_play |-> <<"d", "p", "l">>,
    reset |-> <<"r", "s", "t">>]

Parameterless == DOMAIN Codes

\* a method that is only "return self._cmd(code)"
Plain(name, t0, r1, r2, r3) == Cmd(Codes[name], PyNone, t0, r1, r2, r3)

\* power_on and power_off as they would be without the call of sleep
ThenSleep_Skipped(result, secs) == result

\* result = self._cmd(code); self.sleep(secs); return result
ThenSleep(result, secs) ==
    IF result.exc = "None"
    THEN [result EXCEPT !.log = Append(result.log, SleepEv(secs))]
    ELSE result

power_on(t0, r1, r2, r3) ==
    ThenSleep(Cmd(<<"p", "o", "n">>, PyNone, t0, r1, r2, r3), PowerOnSleep)

power_off(t0, r1, r2, r3) ==
    ThenSleep(Cmd(<<"p", "o", "f">>, PyNone, t0, r1, r2, r3), PowerOffSleep)

\* a validator of a setter raised: nothing was written or read
Rejected(cls, m, t0) == Outcome(cls, m, <<>>, PyNone, t0, <<>>, <<>>)

\* x in list
PyIn(x, list) == \E y \in list : PyEq(x, y)

\* [0, '0', 1, '1', 2, '2', 3, '3']
VerboseModes ==
    {PyInt(0), PyStr(<<"0">>), PyInt(1), PyStr(<<"1">>),
     PyInt(2), PyStr(<<"2">>), PyInt(3), PyStr(<<"3">>)}

\* the keys of the class attribute hdmi_resolutions
hdmi_resolutions ==
    {PyStr(<<"S", "D", "I">>),
     PyStr(<<"S", "D", "P">>),
     PyStr(<<"7", "2", "0", "P">>),
     PyStr(<<"1", "0", "8", "0", "I">>),
     PyStr(<<"1", "0", "8", "0", "P">>),
     PyStr(<<"S", "R", "C">>),
     PyStr(<<"A", "U", "T", "O">>)}

\* ['NTSC', 'PAL', 'AUTO']
OutputSystems ==
    {PyStr(<<"N", "T", "S", "C">>),
     PyStr(<<"P", "A", "L">>),
     PyStr(<<"A", "U", "T", "O">>)}

\* the list set_zoom_ratio tests its argument against
ZoomRatios ==
    {PyStr(<<"1">>),
     PyStr(<<"A", "R">>),
     PyStr(<<"F", "S">>),
     PyStr(<<"U", "S">>),
     PyStr(<<"1", ".", "2">>),
     PyStr(<<"1", ".", "3">>),
     PyStr(<<"1", ".", "5">>),
     PyStr(<<"2">>),
     PyStr(<<"1", "/", "2">>),
     PyStr(<<"3">>),
     PyStr(<<"4">>),
     PyStr(<<"1", "/", "3">>),
     PyStr(<<"1", "/", "4">>)}

\* ['CH', 'TT', 'ALL', 'OFF', 'SHF', 'RND']
RepeatModes ==
    {PyStr(<<"C", "H">>),
     PyStr(<<"T", "T">>),
     PyStr(<<"A", "L", "L">>),
     PyStr(<<"O", "F", "F">>),
     PyStr(<<"S", "H", "F">>),
     PyStr(<<"R", "N", "D">>)}

set_verbose_mode(mode, t0, r1, r2, r3) ==
    IF ~PyIn(mode, VerboseModes)
    THEN Rejected("ValueError", "Verbose mode not supported", t0)
    ELSE Cmd(<<"s", "v", "m">>, mode, t0, r1, r2, r3)

set_hdmi_resolution(resolution, t0, r1, r2, r3) ==
    IF ~PyIn(resolution, hdmi_resolutions)
    THEN Rejected("ValueError", "HDMI Resolution not supported", t0)
    ELSE Cmd(<<"s", "h", "d">>, resolution, t0, r1, r2, r3)

set_output_system(output_system, t0, r1, r2, r3) ==
    IF ~PyIn(output_system, OutputSystems)
    THEN Rejected("ValueError", "Output System not supported", t0)
    ELSE Cmd(<<"s", "p", "n">>, output_system, t0, r1, r2, r3)

set_zoom_ratio(ratio, t0, r1, r2, r3) ==
    IF ~PyIn(ratio, ZoomRatios)
    THEN Rejected("ValueError", "Zoom ratio not supported", t0)
    ELSE Cmd(<<"s", "z", "m">>, ratio, t0, r1, r2, r3)

set_repeat(repeat_mode, t0, r1, r2, r3) ==
    IF ~PyIn(repeat_mode, RepeatModes)
    THEN Rejected("ValueError", "Repeat mode not supported", t0)
    ELSE Cmd(<<"s", "r", "p">>, repeat_mode, t0, r1, r2, r3)

\* the query is passed on without validation
search(query, t0, r1, r2, r3) == Cmd(<<"s", "r", "h">>, query, t0, r1, r2, r3)

\* isinstance(v, int)
IsInt(v) == v.t = "int"

\* the range check as it would be one step too wide
ShiftOutOfRange_Wide(shift_value) == shift_value.n > 6 \/ shift_value.n < 0 - 6

\* shift_value > 5 or shift_value < -5
ShiftOutOfRange(shift_value) == shift_value.n > 5 \/ shift_value.n < 0 - 5

set_subtitle_shift(shift_value, t0, r1, r2, r3) ==
    IF ~IsInt(shift_value)
    THEN Rejected("TypeError", "Subtitle shift must be an integer", t0)
    ELSE IF ShiftOutOfRange(shift_value)
    THEN Rejected("ValueError", "Subtitle shift must be between -5 and +5", t0)
    ELSE Cmd(<<"s", "s", "h">>, shift_value, t0, r1, r2, r3)

\* osd_position > 5 or osd_position < 0
PositionOutOfRange(osd_position) == osd_position.n > 5 \/ osd_position.n < 0

\* the method as it would be if it ended, like the other setters, in a
\* call of _cmd (here with a device that stays silent)
set_osd_position_Forwarding(osd_position, t0) ==
    IF ~IsInt(osd_position)
    THEN Rejected("TypeError", "OSD position must be an integer", t0)
    ELSE IF PositionOutOfRange(osd_position)
    THEN Rejected("ValueError", "OSD position must be between 0 and 5", t0)
    ELSE Cmd(<<"s", "o", "p">>, osd_position, t0, <<>>, <<>>, <<>>)

\* the method ends after the two checks: it returns None and calls nothing
set_osd_position(osd_position, t0) ==
    IF ~IsInt(osd_position)
    THEN Rejected("TypeError", "OSD position must be an integer", t0)
    ELSE IF PositionOutOfRange(osd_position)
    THEN Rejected("ValueError", "OSD position must be between 0 and 5", t0)
    ELSE Outcome("None", "", <<>>, PyNone, t0, <<>>, <<>>)

Setters ==
    {"set_verbose_mode", "set_hdmi_resolution", "set_output_system", "set_zoom_ratio",
     "set_repeat", "set_subtitle_shift", "set_osd_position"}

\* the method name called with argument a (ignored by the parameterless ones)
Invoke(name, a, t0, r1, r2, r3) ==
    CASE name = "power_on" -> power_on(t0, r1, r2, r3)
      [] name = "power_off" -> power_off(t0, r1, r2, r3)
      [] name = "set_verbose_mode" -> set_verbose_mode(a, t0, r1, r2, r3)
      [] name = "set_hdmi_resolution" -> set_hdmi_resolution(a, t0, r1, r2, r3)
      [] name = "set_output_system" -> set_output_system(a, t0, r1, r2, r3)
      [] name = "set_zoom_ratio" -> set_zoom_ratio(a, t0, r1, r2, r3)
      [] name = "set_repeat" -> set_repeat(a, t0, r1, r2, r3)
      [] name = "search" -> search(a, t0, r1, r2, r3)
      [] name = "set_subtitle_shift" -> set_subtitle_shift(a, t0, r1, r2, r3)
      [] name = "set_osd_position" -> set_osd_position(a, t0)
      [] OTHER -> Plain(name, t0, r1, r2, r3)
\* what the named operations meet: the reply arrives whole, in the first
\* read window or only in the fallback one, or not at all, or the line fails
WholeDeliveries(stream) ==
    {<<stream, <<>>, <<>> >>, << <<>>, <<>>, stream>>, << <<>>, <<>>, <<>> >>,
     <<RAISE, <<>>, <<>> >>, << <<>>, <<>>, RAISE>>}

WholeScripts == {Consumed(d) : d \in UNION {WholeDeliveries(s) : s \in Streams}}

-----------------------------------------------------------------------------
(* The callers *)

\* the command codes and parameters _cmd is called with directly
Commands ==
    {<<>>, <<"P">>, <<"p", "o", "w">>, <<"S", "v", "M">>, <<"P", "O", "W", "E", "R">>}
Parameters == {PyNone, PyInt(0), PyStr(<<"A", "R">>)}

\* the arguments the named operations are called with
ArgValues ==
    {PyNone} \cup {PyInt(i) : i \in (0 - MaxArg)..MaxArg}
    \cup VerboseModes \cup hdmi_resolutions \cup OutputSystems \cup ZoomRatios
    \cup RepeatModes
    \cup {PyStr(<<>>), PyStr(<<"5">>), PyStr(<<"s", "d", "i">>), PyStr(<<"T", "3">>)}

WithArgument == Setters \cup {"search"}
WithoutArgument == Parameterless \cup {"power_on", "power_off"}

-----------------------------------------------------------------------------
(* The state machine *)

Init ==
    /\ timeout = InitTimeout
    /\ pc = "idle"
    /\ op = ""
    /\ arg = <<>>
    /\ exc = "None"
    /\ msg = ""
    /\ detail = <<>>
    /\ value = PyNone
    /\ buffer = <<>>
    /\ entry = InitTimeout
    /\ log = <<>>

\* the call of name with args ends as out says
Ends(name, args, out) ==
    /\ pc' = "returned"
    /\ op' = name
    /\ arg' = args
    /\ exc' = out.exc
    /\ msg' = out.msg
    /\ detail' = out.detail
    /\ value' = out.value
    /\ buffer' = out.buffer
    /\ entry' = timeout
    /\ log' = out.log
    /\ timeout' = out.timeout

\* the caller calls _cmd directly
DispatchCall ==
    /\ pc = "idle"
    /\ \E command \in Commands, parameters \in Parameters, sc \in Scripts :
           Ends("_cmd", <<command, parameters>>,
                Cmd(command, parameters, timeout, sc[1], sc[2], sc[3]))

\* the caller calls a named operation that takes an argument
SetterCall ==
    /\ pc = "idle"
    /\ \E name \in WithArgument, a \in ArgValues, sc \in WholeScripts :
           Ends(name, <<a>>, Invoke(name, a, timeout, sc[1], sc[2], sc[3]))

\* the caller calls a named operation that takes no argument
PlainCall ==
    /\ pc = "idle"
    /\ \E name \in WithoutArgument, sc \in WholeScripts :
           Ends(name, <<>>, Invoke(name, PyNone, timeout, sc[1], sc[2], sc[3]))

\* the caller has the result or the exception and goes on
Return ==
    /\ pc = "returned"
    /\ pc' = "idle"
    /\ op' = ""
    /\ arg' = <<>>
    /\ exc' = "None"
    /\ msg' = ""
    /\ detail' = <<>>
    /\ value' = PyNone
    /\ buffer' = <<>>
    /\ entry' = timeout
    /\ log' = <<>>
    /\ UNCHANGED timeout

Next == DispatchCall \/ SetterCall \/ PlainCall \/ Return

Spec == Init /\ [][Next]_vars

-----------------------------------------------------------------------------
(* What the properties speak of *)

Returned == pc = "returned"

ReadsOf(l) == SelectSeq(l, LAMBDA e : e.ev = "read")
WritesOf(l) == SelectSeq(l, LAMBDA e : e.ev = "write")
TimeoutsOf(l) == SelectSeq(l, LAMBDA e : e.ev = "timeout")
SleepsOf(l) == SelectSeq(l, LAMBDA e : e.ev = "sleep")

\* the call passed the length check and read the line at least once
Dispatched == Returned /\ ReadsOf(log) # <<>>
\* what the primary read returned
PrimaryRead == ReadsOf(log)[1].data

\* a response frame '@' XX payload '\r' that fits one read
IsFrame(b) == Len(b) >= 4 /\ Len(b) <= 25 /\ b[1] = "@" /\ b[Len(b)] = "\r"
CodeOf(b) == SubSeq(b, 2, 3)
PayloadOf(b) == SubSeq(b, 4, Len(b) - 1)

Blank == {" ", "\t", "\n", "\r", "\f"}

\* v is p without the whitespace around it
IsTrimOf(v, p) ==
    \E i \in 1..(Len(p) + 1), j \in 0..Len(p) :
        /\ v = SubSeq(p, i, j)
        /\ \A k \in 1..Len(p) : (k < i \/ k > j) => p[k] \in Blank
        /\ v # <<>> => v[1] \notin Blank /\ v[Len(v)] \notin Blank

\* the offset of the first '@' of b, counted from 1; 0 when there is none
FirstAt(b) ==
    IF \E i \in 1..Len(b) : b[i] = "@"
    THEN CHOOSE i \in 1..Len(b) : b[i] = "@" /\ \A j \in 1..(i - 1) : b[j] # "@"
    ELSE 0

\* the legal arguments of the setters
Legal(name, a) ==
    CASE name = "set_verbose_mode" ->
             \/ a.t = "int" /\ a.n \in 0..3
             \/ a.t = "str" /\ a.s \in {<<"0">>, <<"1">>, <<"2">>, <<"3">>}
      [] name = "set_hdmi_resolution" ->
             a.t = "str" /\ a.s \in {<<"S", "D", "I">>, <<"S", "D", "P">>,
                                     <<"7", "2", "0", "P">>, <<"1", "0", "8", "0", "I">>,
                                     <<"1", "0", "8", "0", "P">>, <<"S", "R", "C">>,
                                     <<"A", "U", "T", "O">>}
      [] name = "set_output_system" ->
             a.t = "str" /\ a.s \in {<<"N", "T", "S", "C">>, <<"P", "A", "L">>,
                                     <<"A", "U", "T", "O">>}
      [] name = "set_zoom_ratio" -> a \in ZoomRatios
      [] name = "set_repeat" ->
             a.t = "str" /\ a.s \in {<<"C", "H">>, <<"T", "T">>, <<"A", "L", "L">>,
                                     <<"O", "F", "F">>, <<"S", "H", "F">>,
                                     <<"R", "N", "D">>}
      [] name = "set_subtitle_shift" -> a.t = "int" /\ a.n \in (0 - 5)..5
      [] name = "set_osd_position" -> a.t = "int" /\ a.n \in 0..5
      [] OTHER -> TRUE

-----------------------------------------------------------------------------
(* Properties *)

\* C1: whenever a call of _cmd has returned, the read timeout of the
\* connection is the one set at construction (0.2 s)
C1_TimeoutSteady == Returned /\ op = "_cmd" => timeout = InitTimeout

\* C2: a frame whose result code is ER in any letter case makes _cmd raise
\* the device error, with the bytes between offset 3 and the terminator as
\* its detail, and return no payload
C2_ErrorReply ==
    (Dispatched /\ exc # "SerialException" /\ IsFrame(buffer)
        /\ CodeOf(buffer) \in {<<"E", "R">>, <<"E", "r">>, <<"e", "R">>, <<"e", "r">>})
    => (exc = "CommandError" /\ msg = "Error: %s" /\ detail = PayloadOf(buffer)
        /\ value = PyNone)

\* C3: when the primary read is a well-formed frame whose result code is
\* not ER, _cmd returns the payload without the whitespace around it, after
\* exactly one read, and the timeout is what it was before the call
C3_WellFormed ==
    (Dispatched /\ op = "_cmd" /\ PrimaryRead # RAISE /\ IsFrame(PrimaryRead)
        /\ CodeOf(PrimaryRead) # <<"E", "R">>)
    => (/\ exc = "None"
        /\ value.t = "str"
        /\ IsTrimOf(value.s, PayloadOf(PrimaryRead))
        /\ Len(ReadsOf(log)) = 1
        /\ TimeoutsOf(log) = <<>>
        /\ timeout = entry)

C3_Witness ==
    /\ Dispatched /\ op = "_cmd" /\ PrimaryRead # RAISE /\ IsFrame(PrimaryRead)
    /\ CodeOf(PrimaryRead) = <<"O", "K">>
    /\ exc = "None"
    /\ value.s # <<>>
    /\ value.s # PayloadOf(PrimaryRead)

\* C4: a command code that is not 3 characters long makes _cmd raise the
\* invalid-command error with no write, flush or read and the timeout as it was
C4_BadCommand ==
    (Returned /\ op = "_cmd" /\ Len(arg[1]) # 3)
    => (/\ exc = "ValueError"
        /\ msg = "command must be exactly 3 bytes"
        /\ value = PyNone
        /\ log = <<>>
        /\ timeout = entry)

C4_Witness ==
    /\ Returned /\ op = "_cmd" /\ Len(arg[1]) = 5 /\ exc = "ValueError"
    /\ entry = ExtendedTimeout

\* C5: when the primary read and the fallback read both return nothing,
\* _cmd raises the no-response error and the timeout is the steady-state
\* 0.2 s that was in force before the call
C5_NoResponse ==
    (Dispatched /\ op = "_cmd" /\ entry = InitTimeout
        /\ Len(ReadsOf(log)) = 2 /\ ReadsOf(log)[1].data = <<>>
        /\ ReadsOf(log)[2].data = <<>>)
    => (exc = "CommandError" /\ msg = "No response received" /\ timeout = InitTimeout)

\* C6: when the primary read is stray bytes without '@' followed by a
\* whole frame, _cmd drops the stray bytes, reads no more, leaves the
\* timeout alone and decides on the frame alone
C6_LeadingNoise ==
    (Dispatched /\ op = "_cmd" /\ PrimaryRead # RAISE /\ FirstAt(PrimaryRead) > 1
        /\ IsFrame(SubSeq(PrimaryRead, FirstAt(PrimaryRead), Len(PrimaryRead))))
    => LET frame == SubSeq(PrimaryRead, FirstAt(PrimaryRead), Len(PrimaryRead))
       IN /\ buffer = frame
          /\ Len(ReadsOf(log)) = 1
          /\ TimeoutsOf(log) = <<>>
          /\ timeout = entry
          /\ exc \in {"None", "CommandError"}
          /\ exc = "None" => value.t = "str" /\ IsTrimOf(value.s, PayloadOf(frame))
          /\ exc = "CommandError" => msg = "Error: %s" /\ detail = PayloadOf(frame)

C6_Witness ==
    /\ Dispatched /\ op = "_cmd" /\ PrimaryRead # RAISE /\ FirstAt(PrimaryRead) > 1
    /\ buffer = SubSeq(PrimaryRead, 2, Len(PrimaryRead))
    /\ IsFrame(buffer)
    /\ exc = "None"
    /\ value = PyStr(<<"K">>)

\* the request frame of a named operation: '#', the code in upper case,
\* a space and the argument's text when it takes one, the terminator
ExpectedRequest(name, args) ==
    LET code == CASE name = "power_on" -> <<"P", "O", "N">>
                  [] name = "power_off" -> <<"P", "O", "F">>
                  [] name = "set_verbose_mode" -> <<"S", "V", "M">>
                  [] name = "set_hdmi_resolution" -> <<"S", "H", "D">>
                  [] name = "set_output_system" -> <<"S", "P", "N">>
                  [] name = "set_zoom_ratio" -> <<"S", "Z", "M">>
                  [] name = "set_repeat" -> <<"S", "R", "P">>
                  [] name = "search" -> <<"S", "R", "H">>
                  [] name = "set_subtitle_shift" -> <<"S", "S", "H">>
                  [] OTHER -> upper(Codes[name])
    IN <<"#">> \o code \o (IF args = <<>> THEN <<>> ELSE <<" ">> \o PyToStr(args[1]))
       \o <<"\r">>

\* C7: a named operation called with a legal argument writes exactly one
\* request frame, '#' CODE [' ' argument] '\r', whatever was called before
C7_RequestFrame ==
    (Returned /\ op \notin {"_cmd", "search"} /\ (arg # <<>> => Legal(op, arg[1])))
    => /\ Len(WritesOf(log)) = 1
       /\ op # "set_osd_position" => WritesOf(log)[1].data = ExpectedRequest(op, arg)

\* C8: a setter called with an argument outside its legal set raises the
\* invalid-argument error without a write or a read, the timeout as it was
C8_BadArgument ==
    (Returned /\ op \in Setters /\ ~Legal(op, arg[1]))
    => (/\ exc \in {"ValueError", "TypeError"}
        /\ msg # "command must be exactly 3 bytes"
        /\ value = PyNone
        /\ log = <<>>
        /\ timeout = entry)

C8_Witness ==
    /\ Returned /\ op = "set_verbose_mode" /\ arg = <<PyInt(5)>>
    /\ exc = "ValueError" /\ log = <<>>

\* the call slept once, for secs seconds, after everything else it did
SleptLast(secs) ==
    /\ log # <<>>
    /\ log[Len(log)] = [ev |-> "sleep", data |-> <<>>, n |-> secs, tmo |-> 0]
    /\ Len(SleepsOf(log)) = 1

\* C9: power_on answered '@OK\r' succeeds; a power_on that succeeds has
\* slept 25 s after the dispatcher returned, a power_off 10 s
C9_SettleDelay ==
    /\ (Dispatched /\ op \in {"power_on", "power_off"} /\ PrimaryRead = <<"@", "O", "K", "\r">>)
           => exc = "None"
    /\ (Returned /\ op = "power_on" /\ exc = "None") => SleptLast(25)
    /\ (Returned /\ op = "power_off" /\ exc = "None") => SleptLast(10)

C9_Witness ==
    /\ Dispatched /\ op = "power_on" /\ PrimaryRead = <<"@", "O", "K", "\r">>
    /\ exc = "None" /\ SleptLast(25)

\* C10: when the fallback read raises, the timeout is back at the
\* steady-state value when the exception reaches the caller, and no call
\* ends with the timeout at 10 s
C10_RestoredOnRaise ==
    /\ (Dispatched /\ exc = "SerialException" /\ TimeoutsOf(log) # <<>>)
           => timeout = InitTimeout
    /\ Returned => timeout # ExtendedTimeout

\* the kind of failure an exception of the client is, told by its message
Kind ==
    CASE msg = "command must be exactly 3 bytes" -> "InvalidCommand"
      [] msg \in {"Verbose mode not supported", "HDMI Resolution not supported",
                  "Output System not supported", "Zoom ratio not supported",
                  "Repeat mode not supported", "Subtitle shift must be an integer",
                  "Subtitle shift must be between -5 and +5",
                  "OSD position must be an integer",
                  "OSD position must be between 0 and 5"} -> "InvalidArgument"
      [] msg = "No response received" -> "NoResponse"
      [] msg = "Error: %s" -> "DeviceError"
      [] OTHER -> "None"

Kinds == {"InvalidCommand", "InvalidArgument", "NoResponse", "DeviceError"}

\* the class a caller names to catch a kind: the class the kind is raised as
HandlerFor(kind) ==
    IF kind \in {"NoResponse", "DeviceError"} THEN "CommandError" ELSE "ValueError"

\* the call ended in an exception the client raised itself
Failed == Returned /\ exc \notin {"None", "SerialException"}

TrimmedFirst ==
    IF FirstAt(PrimaryRead) > 1
    THEN SubSeq(PrimaryRead, FirstAt(PrimaryRead), Len(PrimaryRead))
    ELSE PrimaryRead

HasTerminator(b) == \E i \in 1..Len(b) : b[i] = "\r"

\* C12: when the head of a frame is left after the trim and holds no
\* terminator, the next thing _cmd does is one more read of up to 25 bytes,
\* appended before validation; a frame split over the two reads is returned
\* as the trimmed payload of the whole frame
C12_TailRead ==
    (Dispatched /\ op = "_cmd" /\ PrimaryRead # RAISE /\ TrimmedFirst # <<>>
        /\ TrimmedFirst[1] = "@" /\ ~HasTerminator(TrimmedFirst))
    => /\ Len(ReadsOf(log)) >= 2
       /\ log[4].ev = "read" /\ log[4].n = 25
       /\ LET tail == log[4].data
          IN (tail # RAISE /\ IsFrame(TrimmedFirst \o tail))
             => /\ exc = "None"
                /\ value.t = "str"
                /\ IsTrimOf(value.s, PayloadOf(TrimmedFirst \o tail))

\* C13: _cmd raises the no-response error exactly when every read of the
\* call returned no bytes
C13_NoResponseIff ==
    (Dispatched /\ op = "_cmd" /\ exc # "SerialException")
    => ((exc = "CommandError" /\ msg = "No response received")
        <=> \A i \in 1..Len(ReadsOf(log)) : ReadsOf(log)[i].data = <<>>)

\* C14: when _cmd returns, the buffer it sliced is a well-formed frame,
\* '@' first and '\r' last, and the value is the trimmed bytes between the
\* 3-byte prefix and the terminator
C14_SuccessFromFrame ==
    (Dispatched /\ exc = "None")
    => /\ buffer # <<>>
       /\ buffer[1] = "@"
       /\ buffer[Len(buffer)] = "\r"
       /\ Len(buffer) >= 4
       /\ value.t = "str"
       /\ IsTrimOf(value.s, PayloadOf(buffer))

\* the buffer _cmd validates: the trimmed primary read and the tail read
FirstBuffer ==
    IF Len(log) >= 4 /\ log[4].ev = "read" /\ log[4].data # RAISE
    THEN TrimmedFirst \o log[4].data
    ELSE TrimmedFirst

\* what C15 says of the transport calls of one _cmd call
IoShape ==
    /\ Len(log) >= 3
    /\ log[1].ev = "write" /\ log[2].ev = "flush" /\ log[3].ev = "read"
    /\ Len(WritesOf(log)) = 1
    /\ Len(SelectSeq(log, LAMBDA e : e.ev = "flush")) = 1
    /\ Len(ReadsOf(log)) \in 1..3
    /\ \A i \in 1..Len(log) :
           log[i].ev = "read" => log[i].n = 25 /\ (log[i].data = RAISE \/ Len(log[i].data) <= 25)
    /\ Len(SelectSeq(log, LAMBDA e : e.ev = "timeout" /\ e.tmo = 1000)) <= 1
    /\ (TimeoutsOf(log) # <<>> /\ PrimaryRead # RAISE) =>
           ~(FirstBuffer # <<>> /\ FirstBuffer[1] = "@"
               /\ FirstBuffer[Len(FirstBuffer)] = "\r")

\* every read issued while the timeout is 10 s is the fallback read, the
\* call that follows the raising of the timeout
OnlyFallbackAtExtended ==
    \A i \in 1..Len(log) :
        (log[i].ev = "read" /\ log[i].tmo = 1000)
        => (i > 1 /\ log[i - 1].ev = "timeout" /\ log[i - 1].tmo = 1000)

\* C15: a _cmd call that passes the length check writes once, flushes once,
\* then reads one to three times, 25 bytes at most each, raises the timeout
\* to 10 s at most once and only for the fallback read, and issues no other
\* read while the timeout is 10 s
C15_IoDiscipline ==
    (Returned /\ op = "_cmd" /\ Len(arg[1]) = 3) => (IoShape /\ OnlyFallbackAtExtended)

====
